---- MODULE Spec2Model ----
(***************************************************************************)
(* A model of the XWayland surface bridge of wlroots-rs                    *)
(* (src/src/xwayland/surface.rs): the Surface wrapper with its reference-  *)
(* counted liveliness cell, the State block kept in the native object's    *)
(* user-data slot, the Shell listener table and its fourteen notification  *)
(* handlers.  The native library (object allocation, signal emission) and  *)
(* the application (handler bodies, stored handles) are the environment.   *)
(***************************************************************************)
EXTENDS Integers, Sequences, FiniteSets, TLC

\* ------------------------------------------------------------------ bounds
MaxWraps == 2    \* Surface::new calls (tokens / State blocks) in one run
MaxHeld == 1    \* wrappers the application keeps per token
MaxDepth == 2    \* nested callback frames (handler bodies, run bodies)
MaxEmit == 3    \* notifications recorded in the history of SpecDispatch
MaxFrames == 2    \* GenericRenderer::render calls in one run
MaxDraws == 1    \* Renderer::clear calls in one run

\* ---------------------------------------------------------------- universe
Outputs == {"o1", "o2"}         \* the Output values a Renderer can borrow
Ptrs == {"p1"}          \* native wlr_xwayland_surface objects
NULL == "null"                \* the null pointer
NoTok == 0                     \* a null State pointer / no token
Tokens == 1 .. MaxWraps         \* the i-th Surface::new makes token i and State block i

\* The fourteen listeners of wayland_listener!(Shell, ...), in source order.
Kinds ==
  { "destroy", "request_configure", "request_move", "request_resize",
    "request_maximize", "request_fullscreen", "map", "unmap", "set_title",
    "set_class", "set_parent", "set_pid", "set_window_type", "ping_timeout" }

VARIABLES
  native,     \* [Ptrs -> "unborn" | "alive" | "destroying" | "freed"]: the native object
  mapped,     \* [Ptrs -> BOOLEAN]: the native object is mapped
  data,       \* [Ptrs -> NoTok | Tokens]: (*shell_surface).data, the user-data slot
  listeners,  \* [Ptrs -> SUBSET Kinds]: records of the Shell linked into the signal lists
  state,      \* [Tokens -> [st, shell]]: the heap State blocks
  rc,         \* [Tokens -> [ptr, strong, cell]]: the Rc<Cell<bool>> liveliness cells
  shell,      \* [Ptrs -> [st, handler, tok]]: the Shell made for each native object
  held,       \* [Tokens -> Nat]: Surface values kept by the application
  handles,    \* set of [ptr, tok]: Handles the application has been given
  stack,      \* callback frames, innermost last
  last,       \* the operation performed by the last step and its outcome
  fault,      \* first undefined behaviour executed, "none" if none
  trace,      \* history of notifications, handler calls and returns (SpecDispatch)
  logOn,      \* whether the history is recorded
  surface_handler,  \* [Ptrs -> handler]: handler slot of the object's wl_surface
  wl_surface, \* [Ptrs -> NULL | WlSurfaces]: (*shell_surface).surface
  renderers,  \* [Outputs -> "none" | Renderer]: the Renderer borrowing each output
  gl,         \* the native rendering calls made so far, in order
  expansion   \* a block given to wlroots_dehandle, its expansion and its execution

\* The variables of the XWayland surface bridge, of the renderer and of the
\* wlroots_dehandle expansion.
xwaylandVars == <<native, mapped, data, listeners, state, rc, shell, held, handles,
                  stack, last, fault, trace, logOn, surface_handler, wl_surface>>

renderVars == <<renderers, gl>>

macroVars == <<expansion>>

vars == <<xwaylandVars, renderVars, macroVars>>

\* ----------------------------------------------------------------- helpers
Handle(p, t) == [ptr |-> p, tok |-> t]

Op(o, p, t, r) == [op |-> o, p |-> p, tok |-> t, res |-> r]

NoOp == Op("none", NULL, NoTok, "none")

\* The wl_surface pointers the native library can put into an object.
WlSurfaces == {"ws1", "ws2"}

\* No related surface: the None of Option<surface::Handle>.
NoSurface == [some |-> FALSE]

\* surface::Handle::from_ptr: the Handle of a wl_surface carries its pointer.
surface_Handle_from_ptr(s) == [ptr |-> s]

\* Surface::surface returning a Handle whether or not the pointer is null.
Surface_surface_unchecked(p) ==
  [some |-> TRUE, handle |-> surface_Handle_from_ptr(wl_surface[p])]

\* Surface::surface: None when (*shell_surface).surface is null, else the Handle
\* made from that pointer.
Surface_surface(p) ==
  IF wl_surface[p] = NULL
    THEN NoSurface
    ELSE [some |-> TRUE, handle |-> surface_Handle_from_ptr(wl_surface[p])]

\* A callback frame: the body of a handler method (k = "handler") with the
\* related-surface argument its listener computed at the call, or the body of
\* a Handle::run (k = "run").
Frame(k, p, t, e) ==
  [k |-> k, p |-> p, tok |-> t, ev |-> e,
   surface |-> IF k = "handler" THEN Surface_surface(p) ELSE NoSurface]

\* A history entry: a notification emitted ("fire") or a handler method called
\* ("call") on p, with the event payload it carries (arg).
EntryOf(k, p, e, r, a) == [k |-> k, p |-> p, ev |-> e, res |-> r, arg |-> a]

Entry(k, p, e, r) == EntryOf(k, p, e, r, "none")

Top == stack[Len(stack)]

Pop == SubSeq(stack, 1, Len(stack) - 1)

\* Nothing is modelled past undefined behaviour: every operation requires that none
\* has been executed.
Running == fault = "none"

\* The native object's memory is allocated (a read or write of it is defined).
Allocated(p) == native[p] \in {"alive", "destroying"}

Unused == {i \in Tokens : rc[i].ptr = NULL}

Fresh == CHOOSE i \in Unused : \A j \in Unused : i <= j

\* Surface::new keeping no strong reference to the cell it makes.
Surface_new_no_strong(p, i) ==
  [ data |-> [data EXCEPT ![p] = i],
    state |-> [state EXCEPT ![i] = [st |-> "live", shell |-> NULL]],
    rc |-> [rc EXCEPT ![i] = [ptr |-> p, strong |-> 0, cell |-> FALSE]] ]

\* --------------------------------------------------------- Surface (wrapper)
\* Surface::new: clears the slot, makes a fresh Rc (strong 1, cell false) and a fresh
\* State block {shell: null, handle: weak}, and stores the block in the slot.  The
\* slot is overwritten whatever it held.
Surface_new(p, i) ==
  [ data  |-> [data EXCEPT ![p] = i],
    state |-> [state EXCEPT ![i] = [st |-> "live", shell |-> NULL]],
    rc    |-> [rc EXCEPT ![i] = [ptr |-> p, strong |-> 1, cell |-> FALSE]] ]

\* Drop for Surface without the strong_count test: every drop frees the block.
Surface_drop_always_frees(p, t, S, R) ==
  LET dec == [R EXCEPT ![t].strong = @ - 1]
      d == data[p]
  IN  IF ~Allocated(p)
      THEN [state |-> S, rc |-> dec, ub |-> "use_after_free"]
      ELSE IF d = NoTok
      THEN [state |-> S, rc |-> dec, ub |-> "null_free"]
      ELSE IF S[d].st # "live"
      THEN [state |-> S, rc |-> dec, ub |-> "double_free"]
      ELSE [state |-> [S EXCEPT ![d].st = "freed"], rc |-> dec, ub |-> "none"]

\* Drop for Surface, then the drop of its Rc field, starting from State blocks S and
\* cells R.  With another Rc left it returns at once.  Otherwise it frees whatever
\* block the slot of its native object names: undefined behaviour (ub) if that object
\* has been freed, if the slot is null or if the block was released before.
Surface_drop(p, t, S, R) ==
  LET dec == [R EXCEPT ![t].strong = @ - 1]
      d   == data[p]
  IN  IF R[t].strong > 1
      THEN [state |-> S, rc |-> dec, ub |-> "none"]
      ELSE IF ~Allocated(p)
      THEN [state |-> S, rc |-> dec, ub |-> "use_after_free"]
      ELSE IF d = NoTok
      THEN [state |-> S, rc |-> dec, ub |-> "null_free"]
      ELSE IF S[d].st # "live"
      THEN [state |-> S, rc |-> dec, ub |-> "double_free"]
      ELSE [state |-> [S EXCEPT ![d].st = "freed"], rc |-> dec, ub |-> "none"]

\* from_handle without testing the result of Weak::upgrade.
Surface_from_handle_unchecked(h) == "Ok"

\* Handleable::from_handle: Weak::upgrade succeeds while some Rc is left.
Surface_from_handle(h) ==
  IF rc[h.tok].strong = 0 THEN "AlreadyDropped" ELSE "Ok"

\* Handleable::weak_reference: the wrapper's pointer and a Weak of its cell.
Surface_weak_reference(p, t) == Handle(p, t)

\* ------------------------------------------------------------------- Init
Init ==
  /\ native = [p \in Ptrs |-> "unborn"]
  /\ mapped = [p \in Ptrs |-> FALSE]
  /\ data = [p \in Ptrs |-> NoTok]
  /\ listeners = [p \in Ptrs |-> {}]
  /\ state = [i \in Tokens |-> [st |-> "none", shell |-> NULL]]
  /\ rc = [i \in Tokens |-> [ptr |-> NULL, strong |-> 0, cell |-> FALSE]]
  /\ shell = [p \in Ptrs |-> [st |-> "none", handler |-> FALSE, tok |-> NoTok]]
  /\ held = [i \in Tokens |-> 0]
  /\ handles = {}
  /\ stack = <<>>
  /\ last = NoOp
  /\ fault = "none"
  /\ trace = <<>>
  /\ logOn = FALSE
  /\ surface_handler = [p \in Ptrs |-> "none"]
  /\ wl_surface = [p \in Ptrs |-> NULL]
  /\ renderers = [o \in Outputs |-> [open |-> FALSE]]
  /\ gl = <<>>
  /\ expansion = "none"

\* --------------------------------------------------- creation and wrapping
\* The native library allocates a surface object (calloc: the slot is null).
NativeCreate(p) ==
  /\ Running
  /\ native[p] = "unborn"
  /\ native' = [native EXCEPT ![p] = "alive"]
  /\ last' = NoOp
  /\ UNCHANGED <<mapped, data, listeners, state, rc, shell, held, handles, stack,
                 fault, trace, logOn, surface_handler, wl_surface, renderVars, macroVars>>

\* The manager's new-surface callback: wraps the object, asks the application for a
\* handler (hnd: whether it gave one), builds the Shell around the wrapper, links its
\* fourteen records into the object's signals and stores the Shell in the State block.
NewSurface(p, hnd) ==
  /\ Running
  /\ native[p] = "alive"
  /\ shell[p].st = "none"
  /\ data[p] = NoTok
  /\ Unused # {}
  /\ LET i == Fresh
         w == Surface_new(p, i)
     IN  /\ data' = w.data
         /\ state' = [w.state EXCEPT ![i].shell = p]
         /\ rc' = w.rc
         /\ shell' = [shell EXCEPT ![p] = [st |-> "live", handler |-> hnd, tok |-> i]]
         /\ handles' = handles \cup {Surface_weak_reference(p, i)}
         /\ last' = NoOp
  /\ listeners' = [listeners EXCEPT ![p] = Kinds]
  /\ UNCHANGED <<native, mapped, held, stack, fault, trace, logOn, surface_handler, wl_surface, renderVars, macroVars>>

\* Surface::new on a native object whose slot is already populated; the application
\* keeps the wrapper it gets.
Rewrap(p) ==
  /\ Running
  /\ native[p] = "alive"
  /\ data[p] # NoTok
  /\ Unused # {}
  /\ LET i == Fresh
         w == Surface_new(p, i)
     IN  /\ data' = w.data
         /\ state' = w.state
         /\ rc' = w.rc
         /\ held' = [held EXCEPT ![i] = 1]
         /\ last' = NoOp
  /\ UNCHANGED <<native, mapped, listeners, shell, handles, stack, fault, trace, logOn, surface_handler, wl_surface, renderVars, macroVars>>

\* Handleable::from_ptr: the State block is read through the slot and its Weak is
\* upgraded and unwrapped.  Undefined behaviour if the native object has been freed,
\* if the slot is null or if the block was released; a panic if no Rc is left.
Surface_from_ptr(p) ==
  IF ~Allocated(p) THEN "use_after_free"
  ELSE IF data[p] = NoTok THEN "null_deref"
  ELSE IF state[data[p]].st # "live" THEN "use_after_free"
  ELSE IF rc[data[p]].strong = 0 THEN "panic"
  ELSE "Ok"

\* The application calls from_ptr and keeps the wrapper it gets.
FromPtr(p) ==
  /\ Running
  /\ native[p] # "unborn"
  /\ last' = Op("from_ptr", p, data[p], Surface_from_ptr(p))
  /\ IF Surface_from_ptr(p) = "Ok"
     THEN /\ held[data[p]] < MaxHeld
          /\ rc' = [rc EXCEPT ![data[p]].strong = @ + 1]
          /\ held' = [held EXCEPT ![data[p]] = @ + 1]
          /\ UNCHANGED fault
     ELSE /\ fault' = IF Surface_from_ptr(p) = "panic" THEN "none" ELSE Surface_from_ptr(p)
          /\ UNCHANGED <<rc, held>>
  /\ UNCHANGED <<native, mapped, data, listeners, state, shell, handles, stack,
                 trace, logOn, surface_handler, wl_surface, renderVars, macroVars>>

\* The application takes a Handle from a wrapper it holds.
WeakReference(t) ==
  /\ Running
  /\ held[t] > 0
  /\ Surface_weak_reference(rc[t].ptr, t) \notin handles
  /\ handles' = handles \cup {Surface_weak_reference(rc[t].ptr, t)}
  /\ last' = NoOp
  /\ UNCHANGED <<native, mapped, data, listeners, state, rc, shell, held, stack,
                 fault, trace, logOn, surface_handler, wl_surface, renderVars, macroVars>>

\* The application drops a wrapper it holds.
DropHeld(t) ==
  /\ Running
  /\ held[t] > 0
  /\ LET r == Surface_drop(rc[t].ptr, t, state, rc)
     IN  /\ state' = r.state
         /\ rc' = r.rc
         /\ fault' = r.ub
  /\ held' = [held EXCEPT ![t] = @ - 1]
  /\ last' = NoOp
  /\ UNCHANGED <<native, mapped, data, listeners, shell, handles, stack, trace, logOn, surface_handler, wl_surface, renderVars, macroVars>>

\* ------------------------------------------------------------ Handle::run
\* upgrade_and_run: from_handle, and on success the body runs with the transient
\* wrapper (a frame on the stack) until RunReturn drops it.
UpgradeAndRun(h) ==
  /\ Running
  /\ h \in handles
  /\ Len(stack) < MaxDepth
  /\ last' = Op("upgrade", h.ptr, h.tok, Surface_from_handle(h))
  /\ IF Surface_from_handle(h) = "Ok"
     THEN /\ rc' = [rc EXCEPT ![h.tok].strong = @ + 1]
          /\ stack' = Append(stack, Frame("run", h.ptr, h.tok, "none"))
     ELSE UNCHANGED <<rc, stack>>
  /\ UNCHANGED <<native, mapped, data, listeners, state, shell, held, handles,
                 fault, trace, logOn, surface_handler, wl_surface, renderVars, macroVars>>

RunReturn ==
  /\ Running
  /\ stack # <<>>
  /\ Top.k = "run"
  /\ LET r == Surface_drop(Top.p, Top.tok, state, rc)
     IN  /\ state' = r.state
         /\ rc' = r.rc
         /\ fault' = r.ub
  /\ stack' = Pop
  /\ last' = Op("run_return", Top.p, Top.tok, "none")
  /\ UNCHANGED <<native, mapped, data, listeners, shell, held, handles, trace, logOn, surface_handler, wl_surface, renderVars, macroVars>>

\* ------------------------------------------------- the listeners of Shell
FireCount == Cardinality({i \in DOMAIN trace : trace[i].k = "fire"})

\* The native library emits signal ev of object p and reaches the Shell's record.
Fires(p, ev) ==
  /\ Running
  /\ native[p] = "alive"
  /\ ev \in listeners[p]
  /\ Len(stack) < MaxDepth
  /\ logOn => FireCount < MaxEmit

\* A listener that calls the handler slot without looking whether it is empty.
Outcome_unchecked_slot(p, avail) == IF ~avail THEN "no_compositor" ELSE "called"

\* What a listener decides before it calls the handler: return if no handler is
\* attached, return if compositor::handle() gives none (avail), else call.
Outcome(p, avail) ==
  IF ~shell[p].handler THEN "no_handler"
  ELSE IF ~avail THEN "no_compositor" ELSE "called"

Answer(avail) == IF avail THEN "available" ELSE "unavailable"

\* What the history records of a listener's early returns.
Reply(p, avail) == IF ~shell[p].handler THEN "no_handler" ELSE Answer(avail)

\* The width and height a client can ask for in a resize request.
Sizes == {<<800, 600>>, <<600, 800>>}

\* xwayland::event::Resize::from_ptr: the event handed to on_resize wraps the
\* pointer the native library passed, so it reads the same request.
Resize_from_ptr(d) == d

\* The answers compositor::handle() can give when the listener asks (it does not ask
\* when no handler is attached).
Avail(p) == IF shell[p].handler THEN BOOLEAN ELSE {TRUE}

\* Where a listener resumes when the handler's method returns: destroy_notify and
\* map_notify have a tail, unmap_notify is told apart for the native library's
\* ordering of unmap and destroy, every other listener just returns.
Resume(ev) == IF ev \in {"destroy", "map", "unmap"} THEN ev ELSE "return"

\* The body every listener shares: on "called" the handler's method m gets a Handle
\* taken from the Shell's own wrapper, and its body then runs (a frame) until
\* HandlerReturn.
ForwardEvent(p, ev, m, avail, sent, got) ==
  /\ last' = NoOp
  /\ IF Outcome(p, avail) = "called"
     THEN /\ stack' = Append(stack, Frame("handler", p, NoTok, Resume(ev)))
          /\ handles' = handles \cup {Surface_weak_reference(p, shell[p].tok)}
          /\ trace' = IF logOn
                      THEN trace \o
                           <<EntryOf("fire", p, ev, Reply(p, avail), sent),
                             EntryOf("call", Surface_weak_reference(p, shell[p].tok).ptr,
                                     m, "none", got)>>
                      ELSE trace
     ELSE /\ UNCHANGED <<stack, handles>>
          /\ trace' = IF logOn
                      THEN Append(trace, EntryOf("fire", p, ev, Reply(p, avail), sent))
                      ELSE trace

\* A listener whose event carries nothing the history records.
Forward(p, ev, m, avail) == ForwardEvent(p, ev, m, avail, "none", "none")

\* What a listener that only forwards leaves alone.
Plain == UNCHANGED <<native, mapped, data, listeners, state, rc, shell, held, fault, logOn, surface_handler, wl_surface, renderVars, macroVars>>

\* request_configure_notify making the Handle it passes a strong holder.
request_configure_notify_holds(p) ==
  /\ Fires(p, "request_configure")
  /\ \E avail \in Avail(p) : Forward(p, "request_configure", "on_configure", avail)
  /\ rc' = [rc EXCEPT ![shell[p].tok].strong = @ + 1]
  /\ UNCHANGED <<native, mapped, data, listeners, state, shell, held, fault, logOn,
                 surface_handler, wl_surface, renderVars, macroVars>>

request_configure_notify(p) ==
  /\ Fires(p, "request_configure")
  /\ \E avail \in Avail(p) : Forward(p, "request_configure", "on_configure", avail)
  /\ Plain

\* request_move_notify calling the resize method.
request_move_notify_resize(p) ==
  /\ Fires(p, "request_move")
  /\ \E avail \in Avail(p) : Forward(p, "request_move", "on_resize", avail)
  /\ Plain

request_move_notify(p) ==
  /\ Fires(p, "request_move")
  /\ \E avail \in Avail(p) : Forward(p, "request_move", "on_move", avail)
  /\ Plain

\* request_resize_notify handing on_resize an event with width and height swapped.
request_resize_notify_swapped(p) ==
  /\ Fires(p, "request_resize")
  /\ \E avail \in Avail(p), sz \in Sizes :
       ForwardEvent(p, "request_resize", "on_resize", avail, sz, <<sz[2], sz[1]>>)
  /\ Plain

\* The client asks for size sz; on_resize gets the event built from the native one.
request_resize_notify(p) ==
  /\ Fires(p, "request_resize")
  /\ \E avail \in Avail(p), sz \in Sizes :
       ForwardEvent(p, "request_resize", "on_resize", avail, sz, Resize_from_ptr(sz))
  /\ Plain

request_maximize_notify(p) ==
  /\ Fires(p, "request_maximize")
  /\ \E avail \in Avail(p) : Forward(p, "request_maximize", "on_maximize", avail)
  /\ Plain

request_fullscreen_notify(p) ==
  /\ Fires(p, "request_fullscreen")
  /\ \E avail \in Avail(p) : Forward(p, "request_fullscreen", "on_fullscreen", avail)
  /\ Plain

set_title_notify(p) ==
  /\ Fires(p, "set_title")
  /\ \E avail \in Avail(p) : Forward(p, "set_title", "title_set", avail)
  /\ Plain

set_class_notify(p) ==
  /\ Fires(p, "set_class")
  /\ \E avail \in Avail(p) : Forward(p, "set_class", "class_set", avail)
  /\ Plain

set_parent_notify(p) ==
  /\ Fires(p, "set_parent")
  /\ \E avail \in Avail(p) : Forward(p, "set_parent", "parent_set", avail)
  /\ Plain

set_pid_notify(p) ==
  /\ Fires(p, "set_pid")
  /\ \E avail \in Avail(p) : Forward(p, "set_pid", "pid_set", avail)
  /\ Plain

set_window_type_notify(p) ==
  /\ Fires(p, "set_window_type")
  /\ \E avail \in Avail(p) : Forward(p, "set_window_type", "window_type_set", avail)
  /\ Plain

ping_timeout_notify(p) ==
  /\ Fires(p, "ping_timeout")
  /\ \E avail \in Avail(p) : Forward(p, "ping_timeout", "ping_timeout", avail)
  /\ Plain

\* The native library maps the surface and emits map.
map_notify(p) ==
  /\ ~mapped[p]
  /\ Fires(p, "map")
  /\ \E avail \in Avail(p) : Forward(p, "map", "on_map", avail)
  /\ mapped' = [mapped EXCEPT ![p] = TRUE]
  /\ UNCHANGED <<native, data, listeners, state, rc, shell, held, fault, logOn, surface_handler, wl_surface, renderVars, macroVars>>

\* unmap_notify returning before it calls the handler.
unmap_notify_silent(p) ==
  /\ mapped[p]
  /\ Fires(p, "unmap")
  /\ last' = NoOp
  /\ trace' = IF logOn THEN Append(trace, Entry("fire", p, "unmap", "available")) ELSE trace
  /\ mapped' = [mapped EXCEPT ![p] = FALSE]
  /\ UNCHANGED <<native, data, listeners, state, rc, shell, held, handles, stack,
                 fault, logOn, surface_handler, wl_surface, renderVars, macroVars>>

\* The native library unmaps the surface and emits unmap.
unmap_notify(p) ==
  /\ mapped[p]
  /\ Fires(p, "unmap")
  /\ \E avail \in Avail(p) : Forward(p, "unmap", "on_unmap", avail)
  /\ mapped' = [mapped EXCEPT ![p] = FALSE]
  /\ UNCHANGED <<native, data, listeners, state, rc, shell, held, fault, logOn, surface_handler, wl_surface, renderVars, macroVars>>

\* An unmap dispatch of p has not returned yet.
Unmapping(p) ==
  \E i \in DOMAIN stack : stack[i].k = "handler" /\ stack[i].p = p /\ stack[i].ev = "unmap"

\* destroy_notify calling the handler's destroyed method twice.
destroy_notify_twice(p) ==
  /\ ~mapped[p]
  /\ ~Unmapping(p)
  /\ Fires(p, "destroy")
  /\ \E avail \in Avail(p) :
       /\ last' = NoOp
       /\ IF Outcome(p, avail) = "called"
          THEN /\ stack' = Append(stack, Frame("handler", p, NoTok, "destroy"))
               /\ handles' = handles \cup {Surface_weak_reference(p, shell[p].tok)}
               /\ trace' = IF logOn
                           THEN trace \o <<Entry("fire", p, "destroy", Answer(avail)),
                                           Entry("call", p, "destroyed", "none"),
                                           Entry("call", p, "destroyed", "none")>>
                           ELSE trace
          ELSE /\ UNCHANGED <<stack, handles>>
               /\ trace' = IF logOn
                           THEN Append(trace, Entry("fire", p, "destroy", Answer(avail)))
                           ELSE trace
       /\ native' = [native EXCEPT ![p] = IF Outcome(p, avail) = "called"
                                          THEN "destroying" ELSE "freed"]
  /\ UNCHANGED <<mapped, data, listeners, state, rc, shell, held, fault, logOn, surface_handler, wl_surface, renderVars, macroVars>>

\* destroy_notify releasing the Shell and the State block before it calls destroyed.
destroy_notify_early_teardown(p) ==
  /\ ~mapped[p]
  /\ ~Unmapping(p)
  /\ Fires(p, "destroy")
  /\ \E avail \in Avail(p) :
       /\ Forward(p, "destroy", "destroyed", avail)
       /\ native' = [native EXCEPT ![p] = IF Outcome(p, avail) = "called"
                                          THEN "destroying" ELSE "freed"]
       /\ IF Outcome(p, avail) = "called"
          THEN /\ listeners' = [listeners EXCEPT ![p] = {}]
               /\ shell' = [shell EXCEPT ![p].st = "freed"]
               /\ state' = [state EXCEPT ![shell[p].tok].st = "freed"]
          ELSE UNCHANGED <<listeners, shell, state>>
  /\ UNCHANGED <<mapped, data, rc, held, fault, logOn, surface_handler, wl_surface, renderVars, macroVars>>

\* The native library destroys the surface: a mapped surface is unmapped first (its
\* unmap emitted and returned), then destroy is emitted, then the object is freed
\* (here if the listener returns at once, in HandlerReturn otherwise).
destroy_notify(p) ==
  /\ ~mapped[p]
  /\ ~Unmapping(p)
  /\ Fires(p, "destroy")
  /\ \E avail \in Avail(p) :
       /\ Forward(p, "destroy", "destroyed", avail)
       /\ native' = [native EXCEPT ![p] = IF Outcome(p, avail) = "called"
                                          THEN "destroying" ELSE "freed"]
  /\ UNCHANGED <<mapped, data, listeners, state, rc, shell, held, fault, logOn, surface_handler, wl_surface, renderVars, macroVars>>

\* Drop for Shell (the fourteen wl_list_remove calls), then the drop of its fields:
\* the Shell's own Surface and the handler.
\* Drop for Shell leaving the ping_timeout record linked.
Shell_drop_keeps_ping_timeout(sp) ==
  LET r == Surface_drop(sp, shell[sp].tok, state, rc)
  IN  [ listeners |-> [listeners EXCEPT ![sp] = @ \ (Kinds \ {"ping_timeout"})],
        shell     |-> [shell EXCEPT ![sp].st = "freed"],
        state     |-> r.state,
        rc        |-> r.rc,
        ub        |-> r.ub ]

Shell_drop(sp) ==
  LET r == Surface_drop(sp, shell[sp].tok, state, rc)
  IN  [ listeners |-> [listeners EXCEPT ![sp] = @ \ Kinds],
        shell     |-> [shell EXCEPT ![sp].st = "freed"],
        state     |-> r.state,
        rc        |-> r.rc,
        ub        |-> r.ub ]

\* The tail of destroy_notify, after manager.destroyed has returned: the State block
\* is read through the slot and Box::from_raw((*shell_state_ptr).shell) is dropped.
\* Undefined behaviour if the slot is null, if the block was released, if its shell
\* field is null or if that Shell was dropped before.
Teardown(p) ==
  LET d    == data[p]
      sp   == state[d].shell
      keep == [listeners |-> listeners, shell |-> shell, state |-> state, rc |-> rc]
  IN  IF d = NoTok THEN keep @@ [ub |-> "null_deref"]
      ELSE IF state[d].st # "live" THEN keep @@ [ub |-> "use_after_free"]
      ELSE IF sp = NULL THEN keep @@ [ub |-> "null_deref"]
      ELSE IF shell[sp].st # "live" THEN keep @@ [ub |-> "double_free"]
      ELSE Shell_drop(sp)

\* destroy_notify resumes when the handler returns; the native library then frees
\* the object.
destroy_notify_finish(p) ==
  /\ listeners' = Teardown(p).listeners
  /\ shell' = Teardown(p).shell
  /\ state' = Teardown(p).state
  /\ rc' = Teardown(p).rc
  /\ fault' = Teardown(p).ub
  /\ native' = [native EXCEPT ![p] = "freed"]

\* The secondary handlers an application's on_map can return.
SecondaryHandlers == {"s1", "s2"}

\* What on_map returns: None (the trait's default) or a secondary handler.  The
\* dispatch history is taken with handlers that keep the default.
Returns == IF logOn THEN {"none"} ELSE {"none"} \cup SecondaryHandlers

\* map_notify storing whatever on_map returned, None included.
map_notify_finish_overwrites(p, r) == [surface_handler EXCEPT ![p] = r]

\* The tail of map_notify: a secondary handler on_map returned (r) is stored in the
\* handler slot of the wl_surface of p, None leaves the slot alone.
map_notify_finish(p, r) ==
  [surface_handler EXCEPT ![p] = IF r = "none" THEN @ ELSE r]

\* The handler's method returns to its listener.  The tail of map_notify reaches the
\* wl_surface through the Shell's wrapper: undefined behaviour if the native object
\* was freed while on_map ran.
HandlerReturn ==
  /\ Running
  /\ stack # <<>>
  /\ Top.k = "handler"
  /\ stack' = Pop
  /\ IF Top.ev = "destroy"
     THEN /\ destroy_notify_finish(Top.p)
          /\ last' = NoOp
          /\ UNCHANGED surface_handler
     ELSE IF Top.ev = "map"
     THEN /\ \E r \in Returns :
               /\ last' = Op("on_map", Top.p, NoTok, r)
               /\ IF r # "none" /\ ~Allocated(Top.p)
                  THEN fault' = "use_after_free" /\ UNCHANGED surface_handler
                  ELSE surface_handler' = map_notify_finish(Top.p, r) /\ UNCHANGED fault
          /\ UNCHANGED <<native, listeners, state, rc, shell>>
     ELSE /\ last' = NoOp
          /\ UNCHANGED <<native, listeners, state, rc, shell, fault, surface_handler>>
  /\ UNCHANGED <<mapped, data, held, handles, trace, logOn, wl_surface, renderVars, macroVars>>

\* ------------------------------------------------------------ specifications
Notify(p) ==
  \/ destroy_notify(p)
  \/ request_configure_notify(p)
  \/ request_move_notify(p)
  \/ request_resize_notify(p)
  \/ request_maximize_notify(p)
  \/ request_fullscreen_notify(p)
  \/ map_notify(p)
  \/ unmap_notify(p)
  \/ set_title_notify(p)
  \/ set_class_notify(p)
  \/ set_parent_notify(p)
  \/ set_pid_notify(p)
  \/ set_window_type_notify(p)
  \/ ping_timeout_notify(p)

\* The operations of the application, of the native library and of the bridge.
Next ==
  \/ \E p \in Ptrs : NativeCreate(p)
  \/ \E p \in Ptrs, hnd \in BOOLEAN : NewSurface(p, hnd)
  \/ \E p \in Ptrs : Rewrap(p)
  \/ \E p \in Ptrs : FromPtr(p)
  \/ \E t \in Tokens : WeakReference(t)
  \/ \E t \in Tokens : DropHeld(t)
  \/ \E h \in handles : UpgradeAndRun(h)
  \/ RunReturn
  \/ \E p \in Ptrs : Notify(p)
  \/ HandlerReturn


Spec == Init /\ [][Next]_vars

\* The dispatch history of one surface: the same listeners, with every notification
\* the native library emits and every handler call recorded in trace.
InitDispatch ==
  /\ native = [p \in Ptrs |-> "unborn"]
  /\ mapped = [p \in Ptrs |-> FALSE]
  /\ data = [p \in Ptrs |-> NoTok]
  /\ listeners = [p \in Ptrs |-> {}]
  /\ state = [i \in Tokens |-> [st |-> "none", shell |-> NULL]]
  /\ rc = [i \in Tokens |-> [ptr |-> NULL, strong |-> 0, cell |-> FALSE]]
  /\ shell = [p \in Ptrs |-> [st |-> "none", handler |-> FALSE, tok |-> NoTok]]
  /\ held = [i \in Tokens |-> 0]
  /\ handles = {}
  /\ stack = <<>>
  /\ last = NoOp
  /\ fault = "none"
  /\ trace = <<>>
  /\ logOn = TRUE
  /\ surface_handler = [p \in Ptrs |-> "none"]
  /\ wl_surface = [p \in Ptrs |-> NULL]
  /\ renderers = [o \in Outputs |-> [open |-> FALSE]]
  /\ gl = <<>>
  /\ expansion = "none"

NextDispatch ==
  \/ \E p \in Ptrs : NativeCreate(p)
  \/ \E p \in Ptrs, hnd \in BOOLEAN : NewSurface(p, hnd)
  \/ \E p \in Ptrs : Notify(p)
  \/ HandlerReturn

SpecDispatch == InitDispatch /\ [][NextDispatch]_vars

\* ---- Handle comparison
\* Pointer values two Handles can carry.
EqPtrs == {"p1", "p2"}

\* Handle equality comparing the liveliness cell as well.
Handle_eq_by_cell(a, b) == a.ptr = b.ptr /\ a.tok = b.tok

\* PartialEq for Handle: only the native pointers are compared.
Handle_eq(a, b) == a.ptr = b.ptr

\* Handles of up to MaxWraps cells, each cell made for one of two native objects and
\* either alive or dead.
InitEq ==
  /\ native = [p \in Ptrs |-> "unborn"]
  /\ mapped = [p \in Ptrs |-> FALSE]
  /\ data = [p \in Ptrs |-> NoTok]
  /\ listeners = [p \in Ptrs |-> {}]
  /\ state = [i \in Tokens |-> [st |-> "none", shell |-> NULL]]
  /\ rc \in [Tokens -> [ptr : EqPtrs, strong : {0, 1}, cell : {FALSE}]]
  /\ shell = [p \in Ptrs |-> [st |-> "none", handler |-> FALSE, tok |-> NoTok]]
  /\ held = [i \in Tokens |-> 0]
  /\ handles \in SUBSET {Surface_weak_reference(rc[t].ptr, t) : t \in Tokens}
  /\ stack = <<>>
  /\ last = NoOp
  /\ fault = "none"
  /\ trace = <<>>
  /\ logOn = FALSE
  /\ surface_handler = [p \in Ptrs |-> "none"]
  /\ wl_surface = [p \in Ptrs |-> NULL]
  /\ renderers = [o \in Outputs |-> [open |-> FALSE]]
  /\ gl = <<>>
  /\ expansion = "none"

\* The application compares two Handles it has.
Compare(a, b) ==
  /\ last' = [op |-> "eq", a |-> a, b |-> b, res |-> Handle_eq(a, b)]
  /\ UNCHANGED <<native, mapped, data, listeners, state, rc, shell, held, handles,
                 stack, fault, trace, logOn, surface_handler, wl_surface, renderVars, macroVars>>

NextEq == \E a \in handles, b \in handles : Compare(a, b)

SpecEq == InitEq /\ [][NextEq]_vars

\* A handler is put into the empty handler slot of a Shell after notifications may
\* already have been emitted.
AttachHandler(p) ==
  /\ Running
  /\ native[p] = "alive"
  /\ shell[p].st = "live"
  /\ ~shell[p].handler
  /\ shell' = [shell EXCEPT ![p].handler = TRUE]
  /\ last' = NoOp
  /\ UNCHANGED <<native, mapped, data, listeners, state, rc, held, handles, stack,
                 fault, trace, logOn, surface_handler, wl_surface, renderVars, macroVars>>

NextAttach ==
  \/ \E p \in Ptrs : NativeCreate(p)
  \/ \E p \in Ptrs, hnd \in BOOLEAN : NewSurface(p, hnd)
  \/ \E p \in Ptrs : AttachHandler(p)
  \/ \E p \in Ptrs : Notify(p)
  \/ HandlerReturn

\* The dispatch history when the handler may be attached late.
SpecAttach == InitDispatch /\ [][NextAttach]_vars

\* ------------------------------------------------------------ the renderer
\* No value: the None of an Option.
None == "none"

\* The damage field of a Renderer, an Option<(PixmanRegion, Duration)>.
NoDamage == [some |-> FALSE]

Damages ==
  {[some |-> TRUE, region |-> "r1", when |-> "t1"],
   [some |-> TRUE, region |-> "r2", when |-> "t2"]}

\* No Renderer borrows the output.
NoRenderer == [open |-> FALSE]

\* A native call: wlr_renderer_* on the one wlr_renderer, or a method of Output out.
Call(o, out, when, damage) == [op |-> o, out |-> out, when |-> when, damage |-> damage]

CallsOf(o) == {i \in DOMAIN gl : gl[i].op = o}

\* GenericRenderer::render: the output is made current, wlr_renderer_begin gets its
\* size, and the Renderer keeps the output borrowed with the damage given.
GenericRenderer_render(out, damage) ==
  [ gl |-> gl \o <<Call("make_current", out, None, None), Call("begin", out, None, None)>>,
    renderer |-> [open |-> TRUE, output |-> out, damage |-> damage] ]

\* Drop for Renderer that always swaps without damage.
Renderer_drop_without_damage(r) ==
  <<Call("end", None, None, None), Call("swap_buffers", r.output, None, None)>>

\* Drop for Renderer: wlr_renderer_end, then swap_buffers on the borrowed output with
\* the damage taken out of the field.
Renderer_drop(r) ==
  <<Call("end", None, None, None),
    IF r.damage.some
    THEN Call("swap_buffers", r.output, r.damage.when, r.damage.region)
    ELSE Call("swap_buffers", r.output, None, None)>>

\* The application starts rendering on an output no Renderer borrows.
Render(out, damage) ==
  /\ ~renderers[out].open
  /\ Cardinality(CallsOf("begin")) < MaxFrames
  /\ gl' = GenericRenderer_render(out, damage).gl
  /\ renderers' = [renderers EXCEPT ![out] = GenericRenderer_render(out, damage).renderer]
  /\ UNCHANGED <<xwaylandVars, macroVars>>

\* The application writes the public damage field of a Renderer.
SetDamage(out, damage) ==
  /\ renderers[out].open
  /\ renderers[out].damage # damage
  /\ renderers' = [renderers EXCEPT ![out].damage = damage]
  /\ UNCHANGED <<gl, xwaylandVars, macroVars>>

\* Renderer::clear.
Clear(out) ==
  /\ renderers[out].open
  /\ Cardinality(CallsOf("clear")) < MaxDraws
  /\ gl' = Append(gl, Call("clear", None, None, None))
  /\ UNCHANGED <<renderers, xwaylandVars, macroVars>>

\* The Renderer of an output goes out of scope.
DropRenderer(out) ==
  /\ renderers[out].open
  /\ gl' = gl \o Renderer_drop(renderers[out])
  /\ renderers' = [renderers EXCEPT ![out] = NoRenderer]
  /\ UNCHANGED <<xwaylandVars, macroVars>>

NextRender ==
  \/ \E out \in Outputs, damage \in Damages \cup {NoDamage} : Render(out, damage)
  \/ \E out \in Outputs, damage \in Damages \cup {NoDamage} : SetDamage(out, damage)
  \/ \E out \in Outputs : Clear(out)
  \/ \E out \in Outputs : DropRenderer(out)

SpecRender == Init /\ [][NextRender]_vars

\* ------------------------------------------------------------------ claims
Wrapped(p) == shell[p].st # "none"

\* The Handles of native object p.
HandlesOf(p) == {h \in handles : h.ptr = p}

\* C1: once the destroy notification of a resource has been dispatched, the upgrade
\* of every Handle derived from it gives AlreadyDropped.
C1_UpgradeAfterDestroyFails ==
  \A h \in handles : native[h.ptr] = "freed" => Surface_from_handle(h) = "AlreadyDropped"

\* C2: while the handler's destroyed method runs, the upgrade of the resource's
\* Handle gives AlreadyDropped.
C2_DeadInsideDestroyed ==
  \A i \in DOMAIN stack :
    (stack[i].k = "handler" /\ stack[i].ev = "destroy")
      => \A h \in HandlesOf(stack[i].p) : Surface_from_handle(h) = "AlreadyDropped"

\* C3: after destroy was dispatched for a resource wrapped without a handler, its
\* State block is released and the Handle taken before gives AlreadyDropped.
C3_DestroyWithoutHandlerReleases ==
  \A p \in Ptrs :
    (Wrapped(p) /\ ~shell[p].handler /\ native[p] = "freed")
      => /\ state[shell[p].tok].st = "freed"
         /\ Surface_from_handle(Handle(p, shell[p].tok)) = "AlreadyDropped"

\* C4: no native pointer ever has two liveliness cells (or two State blocks) made
\* for it.
C4_OneLineagePerPointer ==
  \A p \in Ptrs : Cardinality({t \in Tokens : rc[t].ptr = p}) <= 1

\* C5: no step replaces the State block stored in a populated user-data slot.
C5_WrapNeverReplacesSlot ==
  [][\A p \in Ptrs : data[p] # NoTok => data'[p] = data[p]]_vars

\* C6: from_ptr on a native object whose slot is null reports UnregisteredNative.
C6_NullSlotReported ==
  (last.op = "from_ptr" /\ last.tok = NoTok /\ Allocated(last.p))
    => last.res = "UnregisteredNative"

\* C7: upgrade_and_run on a Handle whose cell has no Rc left gives AlreadyDropped,
\* runs no body and changes nothing.
C7_DeadUpgradeChangesNothing ==
  [][(last'.op = "upgrade" /\ rc[last'.tok].strong = 0)
       => /\ last'.res = "AlreadyDropped"
          /\ UNCHANGED <<native, mapped, data, listeners, state, rc, shell, held,
                         handles, stack, fault>>]_vars

C7_Witness ==
  /\ last.op = "upgrade"
  /\ last.res = "AlreadyDropped"
  /\ native[last.p] = "freed"

\* ---- claims about the dispatch history (SpecDispatch)
\* The method of the Handler trait that answers each notification.
MethodOf(ev) ==
  CASE ev = "destroy" -> "destroyed"
    [] ev = "request_configure" -> "on_configure"
    [] ev = "request_move" -> "on_move"
    [] ev = "request_resize" -> "on_resize"
    [] ev = "request_maximize" -> "on_maximize"
    [] ev = "request_fullscreen" -> "on_fullscreen"
    [] ev = "map" -> "on_map"
    [] ev = "unmap" -> "on_unmap"
    [] ev = "set_title" -> "title_set"
    [] ev = "set_class" -> "class_set"
    [] ev = "set_parent" -> "parent_set"
    [] ev = "set_pid" -> "pid_set"
    [] ev = "set_window_type" -> "window_type_set"
    [] ev = "ping_timeout" -> "ping_timeout"

IsFire(e, p) == e.k = "fire" /\ e.p = p

IsCall(e, p) == e.k = "call" /\ e.p = p

\* The notifications emitted on p, those emitted while compositor::handle() gave a
\* handle, and the handler methods called for p, each in order.
Emitted(p) == SelectSeq(trace, LAMBDA e : IsFire(e, p))

Delivered(p) == SelectSeq(trace, LAMBDA e : IsFire(e, p) /\ e.res = "available")

Called(p) == SelectSeq(trace, LAMBDA e : IsCall(e, p))

Count(seq, name) == Cardinality({i \in DOMAIN seq : seq[i].ev = name})

\* The positions of trace where method m of p's handler is called.
CallsAt(p, m) == {i \in DOMAIN trace : IsCall(trace[i], p) /\ trace[i].ev = m}

\* The positions of trace where notification ev of p found no compositor handle.
MissedAt(p, ev) ==
  {i \in DOMAIN trace : IsFire(trace[i], p) /\ trace[i].ev = ev /\ trace[i].res = "unavailable"}

\* C8 as stated: with a handler attached, destroyed is called exactly once when the
\* destroy notification fires, and never twice.
C8_DestroyedExactlyOnce ==
  \A p \in Ptrs :
    (Wrapped(p) /\ shell[p].handler)
      => Count(Called(p), "destroyed") = Count(Emitted(p), "destroy")

\* C8 amended: with a handler attached, destroyed is called exactly once when the
\* destroy notification fires while compositor::handle() gives a handle, not at all
\* when it gives none, and never twice.
C8_DestroyedOnceWhenAvailable ==
  \A p \in Ptrs :
    (Wrapped(p) /\ shell[p].handler)
      => /\ Count(Called(p), "destroyed") = Count(Delivered(p), "destroy")
         /\ Count(Called(p), "destroyed") <= 1

C8_Witness ==
  \E p \in Ptrs :
    /\ shell[p].handler
    /\ native[p] = "freed"
    /\ Count(Called(p), "destroyed") = 1

\* No destroyed call of p is entered while an on_unmap call of p has not returned.
UnmapReturnedFirst ==
  \A i, j \in DOMAIN stack :
    ~(i < j /\ stack[i].p = stack[j].p /\ stack[i].ev = "unmap" /\ stack[j].ev = "destroy")

\* on_unmap is called only for a resource that was mapped.
UnmapOnlyIfMapped ==
  \A p \in Ptrs : \A k \in CallsAt(p, "on_unmap") :
    \E j \in 1 .. (k - 1) : IsFire(trace[j], p) /\ trace[j].ev = "map"

\* C9 as stated: every on_map call that precedes the destroyed call is followed, before
\* destroyed is called, by an on_unmap call that has returned; a resource never mapped
\* gets no on_unmap call.
C9_UnmapBeforeDestroy ==
  /\ \A p \in Ptrs : \A i \in CallsAt(p, "destroyed") : \A j \in CallsAt(p, "on_map") :
       j < i => \E k \in CallsAt(p, "on_unmap") : j < k /\ k < i
  /\ UnmapReturnedFirst
  /\ UnmapOnlyIfMapped

\* C9 amended: the same, unless the unmap notification found no compositor handle.
C9_UnmapBeforeDestroyWhenAvailable ==
  /\ \A p \in Ptrs : \A i \in CallsAt(p, "destroyed") : \A j \in CallsAt(p, "on_map") :
       j < i => \E k \in CallsAt(p, "on_unmap") \cup MissedAt(p, "unmap") : j < k /\ k < i
  /\ UnmapReturnedFirst
  /\ UnmapOnlyIfMapped

C9_Witness ==
  \E p \in Ptrs : \E i \in CallsAt(p, "destroyed") : \E j \in CallsAt(p, "on_map") :
    \E k \in CallsAt(p, "on_unmap") : j < k /\ k < i /\ stack = <<>>

\* The methods called for p are those of the notifications in seq, one each, in order.
Follows(p, seq) ==
  /\ Len(Called(p)) = Len(seq)
  /\ \A i \in DOMAIN seq : Called(p)[i].ev = MethodOf(seq[i].ev)

\* C10 as stated: with a handler attached the handler methods are called in the order
\* of the notifications emitted, once per notification.
C10_CallsFollowEmissions ==
  \A p \in Ptrs : (Wrapped(p) /\ shell[p].handler) => Follows(p, Emitted(p))

\* C10 amended: ... once per notification emitted while compositor::handle() gives a
\* handle; a notification that finds none is dropped.
C10_CallsFollowDelivered ==
  \A p \in Ptrs : (Wrapped(p) /\ shell[p].handler) => Follows(p, Delivered(p))

C10_Witness ==
  \E p \in Ptrs :
    /\ shell[p].handler
    /\ Len(Emitted(p)) = 3
    /\ Len(Called(p)) = 3
    /\ Emitted(p) = Delivered(p)
    /\ Emitted(p)[1].ev = "map" /\ Emitted(p)[2].ev = "unmap" /\ Emitted(p)[3].ev = "destroy"
    /\ Called(p)[1].ev = "on_map" /\ Called(p)[2].ev = "on_unmap"
    /\ Called(p)[3].ev = "destroyed"

\* ---- C11
\* The positions of trace where notification ev of p was dispatched with a handler
\* attached, and those where compositor::handle() also gave a handle.
HandledAt(p, ev) ==
  {i \in DOMAIN trace : IsFire(trace[i], p) /\ trace[i].ev = ev /\ trace[i].res # "no_handler"}

DeliveredAt(p, ev) ==
  {i \in DOMAIN trace : IsFire(trace[i], p) /\ trace[i].ev = ev /\ trace[i].res = "available"}

\* The resize request at position i of trace is answered, right away and only then,
\* by one on_resize call with the same width and height and a Handle of the same
\* native pointer.
ResizeDelivered(p, i) ==
  /\ i + 1 \in CallsAt(p, "on_resize")
  /\ trace[i + 1].arg = trace[i].arg

\* C11 as stated: with a handler attached, every resize notification gets exactly one
\* on_resize call carrying the requested width and height and the resource's Handle.
C11_ResizeDelivered ==
  \A p \in Ptrs :
    /\ \A i \in HandledAt(p, "request_resize") : ResizeDelivered(p, i)
    /\ Cardinality(CallsAt(p, "on_resize")) = Cardinality(HandledAt(p, "request_resize"))

\* C11 amended: ... every resize notification dispatched while compositor::handle()
\* gives a handle gets exactly one such call; one that finds none gets no call.
C11_ResizeDeliveredWhenAvailable ==
  \A p \in Ptrs :
    /\ \A i \in DeliveredAt(p, "request_resize") : ResizeDelivered(p, i)
    /\ Cardinality(CallsAt(p, "on_resize")) = Cardinality(DeliveredAt(p, "request_resize"))

C11_Witness ==
  \E p \in Ptrs : \E i \in DeliveredAt(p, "request_resize") :
    /\ trace[i].arg = <<800, 600>>
    /\ trace[i + 1].k = "call"
    /\ trace[i + 1].ev = "on_resize"
    /\ trace[i + 1].arg = <<800, 600>>
    /\ trace[i + 1].p = p

\* ---- C12
\* C12: a notification other than destroy that fires while the handler slot is empty
\* calls no handler method, then or later: every call answers the notification
\* emitted just before it, which found a handler attached.
C12_EmptySlotDropsNotification ==
  \A i \in DOMAIN trace :
    /\ (trace[i].k = "fire" /\ trace[i].ev # "destroy" /\ trace[i].res = "no_handler")
         => (i = Len(trace) \/ trace[i + 1].k = "fire")
    /\ trace[i].k = "call"
         => /\ i > 1
            /\ trace[i - 1].k = "fire"
            /\ trace[i - 1].res = "available"
            /\ trace[i - 1].p = trace[i].p
            /\ trace[i].ev = MethodOf(trace[i - 1].ev)

C12_Witness ==
  \E p \in Ptrs : \E i, j \in DOMAIN trace :
    /\ i < j
    /\ IsFire(trace[i], p) /\ trace[i].ev # "destroy" /\ trace[i].res = "no_handler"
    /\ IsCall(trace[j], p)
    /\ Len(Called(p)) = 1

\* ---- C14
\* C14: the liveliness a Handle observes changes from alive to dead at most once, at
\* the step that dispatches the destroy notification of its native object whatever
\* the number of strong holders, and is never alive again.
C14_TokenDiesAtDestroy ==
  [][\A t \in Tokens :
       rc[t].ptr # NULL
         => /\ rc[t].strong = 0 => rc'[t].strong = 0
            /\ (rc[t].strong > 0 /\ rc'[t].strong = 0)
                  <=> (native[rc[t].ptr] = "alive" /\ native'[rc[t].ptr] # "alive")]_vars

\* ---- C15
\* The wrapper Surface::new returned for h's token is still owned: by the Shell built
\* around it or by the application.
WrapperKept(h) ==
  \/ shell[h.ptr].st = "live" /\ shell[h.ptr].tok = h.tok
  \/ held[h.tok] > 0

\* C15: while the destroy notification of a wrapped object has not fired and the
\* wrapper is kept, every Handle taken from it upgrades, and upgrade_and_run enters
\* its body once.
C15_FreshTokenUpgrades ==
  [][\A h \in handles :
       (native[h.ptr] = "alive" /\ WrapperKept(h))
         => /\ Surface_from_handle(h) = "Ok"
            /\ (last'.op = "upgrade" /\ last'.p = h.ptr /\ last'.tok = h.tok)
                 => /\ last'.res = "Ok"
                    /\ stack' = Append(stack, Frame("run", h.ptr, h.tok, "none"))]_vars

C15_Witness ==
  /\ last.op = "upgrade"
  /\ last.res = "Ok"
  /\ native[last.p] = "alive"
  /\ stack # <<>>
  /\ Top = Frame("run", last.p, last.tok, "none")
  /\ held[last.tok] = 0

\* ---- C16
\* C16: a successful upgrade_and_run adds one strong holder for the time of the call
\* and takes it away on return; when another holder is left at the return, no State
\* block is released, nothing faults and the cell stays upgradable.
C16_RunKeepsLifetime ==
  [][/\ (last'.op = "upgrade" /\ last'.res = "Ok")
          => /\ rc'[last'.tok].strong = rc[last'.tok].strong + 1
             /\ state' = state
     /\ last'.op = "run_return"
          => /\ rc'[last'.tok].strong = rc[last'.tok].strong - 1
             /\ rc[last'.tok].strong > 1
                  => /\ state' = state
                     /\ fault' = fault
                     /\ rc'[last'.tok].strong > 0]_vars

C16_Witness ==
  /\ last.op = "run_return"
  /\ native[last.p] = "alive"
  /\ shell[last.p].st = "live"
  /\ rc[last.tok].strong = 1
  /\ state[last.tok].st = "live"
  /\ fault = "none"

\* ---- C17
\* C17: nothing is released twice or after the native object is gone, and once the
\* destroy notification of a wrapped object has been dispatched its State block is
\* released and its Shell is unlinked and freed.
C17_ReleasedExactlyOnce ==
  /\ fault \notin {"double_free", "use_after_free", "null_free"}
  /\ \A p \in Ptrs :
       (Wrapped(p) /\ native[p] = "freed")
         => /\ state[shell[p].tok].st = "freed"
            /\ shell[p].st = "freed"
            /\ listeners[p] = {}

\* ---- C18
\* C18: a step that does not dispatch the destroy notification of a native object
\* leaves every upgradable Handle of that object upgradable, drops of the last
\* wrapper included.
C18_DropLeavesTokenAlive ==
  [][\A h \in handles :
       (Surface_from_handle(h) = "Ok" /\ native[h.ptr] = "alive" /\ native'[h.ptr] = "alive")
         => rc'[h.tok].strong > 0]_vars

C20_EqualIffSamePointer ==
  last.op = "eq" => (last.res <=> last.a.ptr = last.b.ptr)

C20_Witness ==
  /\ last.op = "eq"
  /\ last.res
  /\ last.a.tok # last.b.tok
  /\ Surface_from_handle(last.a) = "AlreadyDropped"
  /\ Surface_from_handle(last.b) = "Ok"

\* ---- C21
\* A destroyed call of p's handler has not returned yet.
InDestroyed(p) ==
  \E i \in DOMAIN stack :
    stack[i].k = "handler" /\ stack[i].ev = "destroy" /\ stack[i].p = p

\* The step is the return of p's destroyed call into destroy_notify.
DestroyedReturns(p) ==
  /\ stack # <<>>
  /\ Top = Frame("handler", p, NoTok, "destroy")
  /\ stack' = Pop

OnOutput(out, o) == {i \in DOMAIN gl : gl[i].op = o /\ gl[i].out = out}

\* C22: the drop of a Renderer makes exactly wlr_renderer_end and then one
\* swap_buffers on the output it borrowed, with the time and region of the damage it
\* holds then, or with neither if it holds none; so each output has had as many swaps
\* as begins, less the one of the Renderer still open, and every end is followed at
\* once by its swap.
C22_EndAndSwapOnDrop ==
  [][/\ \A out \in Outputs :
          (renderers[out].open /\ ~renderers'[out].open)
            => /\ Len(gl') = Len(gl) + 2
               /\ SubSeq(gl', 1, Len(gl)) = gl
               /\ gl'[Len(gl) + 1].op = "end"
               /\ gl'[Len(gl) + 2].op = "swap_buffers"
               /\ gl'[Len(gl) + 2].out = out
               /\ IF ~renderers[out].damage.some
                  THEN gl'[Len(gl) + 2].when = None /\ gl'[Len(gl) + 2].damage = None
                  ELSE /\ gl'[Len(gl) + 2].when = renderers[out].damage.when
                       /\ gl'[Len(gl) + 2].damage = renderers[out].damage.region
     /\ \A out \in Outputs :
          Cardinality(OnOutput(out, "begin")') =
            Cardinality(OnOutput(out, "swap_buffers")') + (IF renderers'[out].open THEN 1 ELSE 0)
     /\ Cardinality(CallsOf("end")') = Cardinality(CallsOf("swap_buffers")')
     /\ \A i \in CallsOf("end")' : i + 1 \in CallsOf("swap_buffers")']_vars

C22_Witness ==
  \E i \in CallsOf("swap_buffers"), j \in CallsOf("swap_buffers") :
    /\ gl[i].damage = None
    /\ gl[j].damage = "r2" /\ gl[j].when = "t2"
    /\ gl[i].out # gl[j].out
    /\ \A o \in Outputs : ~renderers[o].open

\* ------------------------------------------- the wlroots_dehandle attribute
\* wlroots-dehandle/src/lib.rs rewrites the body of a function: a statement
\* `use h as x`, where x is one of the names given to the attribute, becomes
\* (h).run(|x| { rest of the block }).expect(...).  The variable `expansion`
\* holds one use of the attribute: the source block, the declared names,
\* which handles are valid when the function runs, the generated block, and
\* the execution of the generated block (what is left to run, the upgrades
\* the execution is inside, the statements run so far).
MaxStmts == 3    \* statements of the block the attribute is applied to

HandleVars == {"h1", "h2"}     \* variables of the function that store a handle
Idents == {"x", "y"}       \* names a `use ... as` statement can rename to

\* A statement.  kind is "stmt" (an expression, with or without semicolon,
\* a let with an initialiser, or any other statement), "local_uninit" (a let
\* without initialiser), "use" (`use handle as name`), "block" (an
\* expression statement that is a block, with its statements in body),
\* "tuple" (an expression statement that holds a block where build_block_expr
\* does not look: a tuple element, an array element, the operand of `?`),
\* "run" (the generated handle call) or "end_run" (the end of a run closure,
\* used only while executing).
Item(kind, id, handle, name, body) ==
  [kind |-> kind, id |-> id, handle |-> handle, name |-> name, body |-> body]

\* The statements a source block is drawn from: a plain statement, a let
\* without initialiser, `use h as x`, the nested block { use h2 as x; s } and
\* the tuple ({ use h1 as x; s },).
Shapes ==
  [kind : {"stmt", "local_uninit"}, handle : {None}, name : {None}]
    \cup [kind : {"use"}, handle : HandleVars, name : Idents]
    \cup [kind : {"block"}, handle : {"h2"}, name : Idents]
    \cup [kind : {"tuple"}, handle : {"h1"}, name : {"x"}]

\* The statement of shape sh at position i of the function body.  Statement
\* ids are positions; the statements of the nested block at i are 10*i + j.
Source(i, sh) ==
  IF sh.kind \in {"block", "tuple"}
    THEN Item(sh.kind, i, None, None,
              << Item("use", 10 * i + 1, sh.handle, sh.name, <<>>),
                 Item("stmt", 10 * i + 2, None, None, <<>>) >>)
    ELSE Item(sh.kind, i, sh.handle, sh.name, <<>>)

Blocks ==
  UNION { { [i \in 1 .. n |-> Source(i, f[i])] : f \in [1 .. n -> Shapes] }
          : n \in 0 .. MaxStmts }

\* Args::is_handle: the name is one of the attribute's arguments.
is_handle(args, name) == name \in args

\* The arguments that Args::is_handle has marked as seen after the fold: the
\* names of the `use ... as name` statements that build_block comes to, in the
\* block and in the nested blocks it builds.  It does not come to the blocks
\* inside an expression that build_block_expr returns as it is.
RECURSIVE Seen(_, _)
Seen(input, args) ==
  IF Len(input) = 0 THEN {}
  ELSE LET stmt == Head(input) IN
       (IF stmt.kind = "use" /\ is_handle(args, stmt.name) THEN {stmt.name} ELSE {})
         \cup (IF stmt.kind = "tuple" THEN {} ELSE Seen(stmt.body, args))
         \cup Seen(Tail(input), args)

\* A handle call that continues after a failed upgrade.
handle_call_unchecked(id, handle, dehandle, inner_block) ==
  Item("run_unchecked", id, handle, dehandle, inner_block)

\* The generated statement {(handle).run(|dehandle| { inner_block }).expect(..)}.
handle_call(id, handle, dehandle, inner_block) ==
  Item("run", id, handle, dehandle, inner_block)

\* build_block: copies the statements up to the first `use h as x` with x a
\* declared name, and ends the block with the handle call whose closure is
\* the build of the remaining statements.  Nested blocks are built the same
\* way; a let without initialiser is not copied; every other statement is
\* copied, a tuple with the block in it unchanged.
RECURSIVE build_block(_, _)
build_block(input, args) ==
  IF Len(input) = 0 THEN <<>>
  ELSE LET stmt == Head(input)
           rest == Tail(input)
       IN CASE stmt.kind = "use" ->
                 IF is_handle(args, stmt.name)
                   THEN << handle_call(stmt.id, stmt.handle, stmt.name,
                                       build_block(rest, args)) >>
                   ELSE <<stmt>> \o build_block(rest, args)
            [] stmt.kind = "local_uninit" -> build_block(rest, args)
            [] stmt.kind = "block" ->
                 << [stmt EXCEPT !.body = build_block(stmt.body, args)] >>
                   \o build_block(rest, args)
            [] OTHER -> <<stmt>> \o build_block(rest, args)

\* Handle::run: the closure runs when the handle upgrades, otherwise Err.
Handle_run(valid, handle) == IF valid[handle] THEN "Ok" ELSE "Err"

Expansion(phase, input, args, valid, output, rest, scope, log, failed) ==
  [phase |-> phase, input |-> input, args |-> args, valid |-> valid,
   output |-> output, rest |-> rest, scope |-> scope, log |-> log,
   failed |-> failed]

InitDehandle ==
  /\ native = [p \in Ptrs |-> "unborn"]
  /\ mapped = [p \in Ptrs |-> FALSE]
  /\ data = [p \in Ptrs |-> NoTok]
  /\ listeners = [p \in Ptrs |-> {}]
  /\ state = [i \in Tokens |-> [st |-> "none", shell |-> NULL]]
  /\ rc = [i \in Tokens |-> [ptr |-> NULL, strong |-> 0, cell |-> FALSE]]
  /\ shell = [p \in Ptrs |-> [st |-> "none", handler |-> FALSE, tok |-> NoTok]]
  /\ held = [i \in Tokens |-> 0]
  /\ handles = {}
  /\ stack = <<>>
  /\ last = NoOp
  /\ fault = "none"
  /\ trace = <<>>
  /\ logOn = FALSE
  /\ surface_handler = [p \in Ptrs |-> "none"]
  /\ wl_surface = [p \in Ptrs |-> NULL]
  /\ renderers = [o \in Outputs |-> [open |-> FALSE]]
  /\ gl = <<>>
  /\ \E input \in Blocks, args \in SUBSET Idents, valid \in [HandleVars -> BOOLEAN] :
       expansion = Expansion("source", input, args, valid, <<>>, <<>>, <<>>, <<>>, None)

\* The generated block still has a `use h as x` with x a declared name, in a
\* block build_block did not build: h is a variable, not a path.
RECURSIVE Leftover(_, _)
Leftover(output, args) ==
  \E i \in DOMAIN output :
    \/ /\ output[i].kind = "tuple"
       /\ \E j \in DOMAIN output[i].body :
            output[i].body[j].kind = "use" /\ output[i].body[j].name \in args
    \/ Leftover(output[i].body, args)

\* wlroots_dehandle: the attribute folds the function and hands the result
\* to the compiler, which then runs it.
Expand ==
  /\ expansion.phase = "source"
  /\ expansion.args # {}
  /\ Seen(expansion.input, expansion.args) = expansion.args
  /\ ~Leftover(build_block(expansion.input, expansion.args), expansion.args)
  /\ LET output == build_block(expansion.input, expansion.args)
     IN expansion' = [expansion EXCEPT !.phase = "running", !.output = output,
                                       !.rest = output]
  /\ UNCHANGED <<xwaylandVars, renderVars>>

\* wlroots_dehandle panics at compile time: no argument, or a declared
\* handle that no `use` statement names.
Reject ==
  /\ expansion.phase = "source"
  /\ \/ expansion.args = {}
     \/ Seen(expansion.input, expansion.args) # expansion.args
  /\ expansion' = [expansion EXCEPT !.phase = "rejected"]
  /\ UNCHANGED <<xwaylandVars, renderVars>>

\* wlroots_dehandle returns a function that the compiler refuses.
CompileError ==
  /\ expansion.phase = "source"
  /\ expansion.args # {}
  /\ Seen(expansion.input, expansion.args) = expansion.args
  /\ Leftover(build_block(expansion.input, expansion.args), expansion.args)
  /\ expansion' = [expansion EXCEPT
                     !.phase = "uncompilable",
                     !.output = build_block(expansion.input, expansion.args)]
  /\ UNCHANGED <<xwaylandVars, renderVars>>

\* The generated code runs a statement that build_block copied.
ExecStmt ==
  /\ expansion.phase = "running"
  /\ Len(expansion.rest) > 0
  /\ LET stmt == Head(expansion.rest)
     IN /\ stmt.kind \in {"stmt", "use", "local_uninit"}
        /\ expansion' =
             [expansion EXCEPT
                !.rest = Tail(@),
                !.log = IF stmt.kind = "stmt"
                          THEN Append(@, [id |-> stmt.id, scope |-> expansion.scope])
                          ELSE @]
  /\ UNCHANGED <<xwaylandVars, renderVars>>

\* The generated code enters a nested block.
ExecBlock ==
  /\ expansion.phase = "running"
  /\ Len(expansion.rest) > 0
  /\ LET stmt == Head(expansion.rest)
     IN /\ stmt.kind \in {"block", "tuple"}
        /\ expansion' = [expansion EXCEPT !.rest = stmt.body \o Tail(@)]
  /\ UNCHANGED <<xwaylandVars, renderVars>>

\* The generated handle call: run enters the closure when the handle
\* upgrades; on Err, expect panics (a call without expect goes on).
ExecRun ==
  /\ expansion.phase = "running"
  /\ Len(expansion.rest) > 0
  /\ LET stmt == Head(expansion.rest)
     IN /\ stmt.kind \in {"run", "run_unchecked"}
        /\ expansion' =
             IF Handle_run(expansion.valid, stmt.handle) = "Ok"
               THEN [expansion EXCEPT
                       !.rest = stmt.body
                                  \o <<Item("end_run", stmt.id, None, None, <<>>)>>
                                  \o Tail(@),
                       !.scope = Append(@, <<stmt.handle, stmt.name>>)]
               ELSE IF stmt.kind = "run"
                 THEN [expansion EXCEPT !.phase = "panicked",
                                        !.failed = stmt.handle]
                 ELSE [expansion EXCEPT !.rest = Tail(@)]
  /\ UNCHANGED <<xwaylandVars, renderVars>>

\* The closure of a handle call returns: the upgrade ends.
EndRun ==
  /\ expansion.phase = "running"
  /\ Len(expansion.rest) > 0
  /\ Head(expansion.rest).kind = "end_run"
  /\ expansion' = [expansion EXCEPT
                     !.rest = Tail(@),
                     !.scope = SubSeq(@, 1, Len(@) - 1)]
  /\ UNCHANGED <<xwaylandVars, renderVars>>

\* The generated function body returns.
Finish ==
  /\ expansion.phase = "running"
  /\ Len(expansion.rest) = 0
  /\ expansion' = [expansion EXCEPT !.phase = "done"]
  /\ UNCHANGED <<xwaylandVars, renderVars>>

NextDehandle ==
  \/ Expand
  \/ Reject
  \/ CompileError
  \/ ExecStmt
  \/ ExecBlock
  \/ ExecRun
  \/ EndRun
  \/ Finish

SpecDehandle == InitDehandle /\ [][NextDehandle]_vars

\* ---- C23
\* The `use h as x` statements of block b that the attribute rewrites.
Dehandled(b) ==
  SelectSeq(b, LAMBDA s : s.kind = "use" /\ s.name \in expansion.args)

\* The pairs <<h, x>> of the statements of Dehandled(b), in order.
Upgrades(b) ==
  [k \in 1 .. Len(Dehandled(b)) |-> <<Dehandled(b)[k].handle, Dehandled(b)[k].name>>]

\* The upgrades that statement id of the source is written after, in its
\* enclosing blocks: those of the function body before it and, for a
\* statement of a nested block, those of the nested block before it.
Enclosing(id) ==
  LET input == expansion.input
      i == IF id < 10 THEN id ELSE id \div 10
      j == id % 10
  IN IF id < 10
       THEN Upgrades(SubSeq(input, 1, i - 1))
       ELSE Upgrades(SubSeq(input, 1, i - 1))
              \o Upgrades(SubSeq(input[i].body, 1, j - 1))

\* The ids of the plain statements of the source, in program order.
RECURSIVE PlainIds(_)
PlainIds(b) ==
  IF Len(b) = 0 THEN <<>>
  ELSE (IF Head(b).kind = "stmt" THEN <<Head(b).id>> ELSE <<>>)
         \o PlainIds(Head(b).body) \o PlainIds(Tail(b))

\* The handles that the rewritten `use` statements of the source name.
RECURSIVE DehandledHandles(_)
DehandledHandles(b) ==
  IF Len(b) = 0 THEN {}
  ELSE (IF Head(b).kind = "use" /\ Head(b).name \in expansion.args
          THEN {Head(b).handle} ELSE {})
         \cup DehandledHandles(Head(b).body) \cup DehandledHandles(Tail(b))

\* C23: in the code generated for `use h as x`, every statement that runs has
\* run inside the upgrade of each handle whose `use` precedes it in its
\* enclosing blocks, and every such handle was valid; the function returns
\* only when every dehandled handle upgraded and then every statement has
\* run once, in order; a failed upgrade ends the run in a panic.
C23_RestRunsInsideUpgradeOrPanics ==
  expansion.phase \in {"running", "done", "panicked"} =>
    /\ \A k \in DOMAIN expansion.log :
         /\ expansion.log[k].scope = Enclosing(expansion.log[k].id)
         /\ \A g \in DOMAIN expansion.log[k].scope :
              expansion.valid[expansion.log[k].scope[g][1]]
    /\ expansion.phase = "done" =>
         /\ \A h \in DehandledHandles(expansion.input) : expansion.valid[h]
         /\ [k \in DOMAIN expansion.log |-> expansion.log[k].id]
              = PlainIds(expansion.input)
    /\ expansion.phase = "panicked" =>
         /\ expansion.failed \in DehandledHandles(expansion.input)
         /\ ~expansion.valid[expansion.failed]

\* `use h as x; s; { use g as y; t }` with h valid and g not: s has run
\* inside the upgrade of h, and the upgrade of g has ended the run in a
\* panic before t.
C23_Witness ==
  /\ expansion.phase = "panicked"
  /\ Len(expansion.input) = 3
  /\ expansion.input[1].kind = "use"
  /\ expansion.input[2].kind = "stmt"
  /\ expansion.input[3].kind = "block"
  /\ expansion.valid[expansion.input[1].handle]
  /\ expansion.failed = expansion.input[3].body[1].handle
  /\ expansion.log
       = << [id |-> 2,
             scope |-> << <<expansion.input[1].handle, expansion.input[1].name>> >>] >>

\* ---- C24
\* C24: once the destroy notification of a native object has been dispatched and
\* has returned (the object is freed), no step of the bridge reads the object's
\* slot, the released State block or the freed Shell.
C24_NothingReadAfterDestroy ==
  [][(\E p \in Ptrs : native[p] = "freed") => fault' = "none"]_vars

\* ---- C25
\* C25: when the destroy notification was dispatched inside the body of an
\* upgrade_and_run and its dispatch has returned with the Shell torn down, the
\* token of the body's transient wrapper is dead for every Handle and its State
\* block is already released, so the drop of the transient wrapper releases nothing.
C25_DestroyInsideRunReleasesAll ==
  \A i \in DOMAIN stack :
    (stack[i].k = "run" /\ native[stack[i].p] = "freed" /\ shell[stack[i].p].st = "freed")
      => /\ rc[stack[i].tok].strong = 0
         /\ state[stack[i].tok].st = "freed"

\* ---- C26
\* C26: when the body of a handler method called for another event than destroy
\* has had the destroy notification of the same object dispatched (the Shell is
\* torn down and the object freed when the method returns), the rest of the outer
\* listener reads and writes nothing that the nested destroy released.
C26_OuterDispatchAfterNestedDestroy ==
  [][(/\ stack # <<>>
      /\ Top.k = "handler"
      /\ Top.ev # "destroy"
      /\ native[Top.p] = "freed"
      /\ shell[Top.p].st = "freed"
      /\ stack' = Pop)
        => fault' = "none"]_vars

\* ---- C27
\* C27: the slot of a native object refers to a State block only while that block
\* is live, and from_ptr on an object whose block was released does not read the
\* released block.
C27_SlotRefersToLiveBlock ==
  /\ \A p \in Ptrs : data[p] # NoTok => state[data[p]].st = "live"
  /\ last.op = "from_ptr" => last.res # "use_after_free"

\* ---- C28
\* The native library emits a notification other than destroy.
NonDestroyFire ==
  /\ Len(trace') > Len(trace)
  /\ trace'[Len(trace) + 1].k = "fire"
  /\ trace'[Len(trace) + 1].ev # "destroy"

\* The handler method of a notification other than destroy returns to its listener.
NonDestroyReturn ==
  /\ stack # <<>>
  /\ Top.k = "handler"
  /\ Top.ev # "destroy"
  /\ stack' = Pop

\* C28: the dispatch of a notification other than destroy, from its emission to
\* the return of the handler method, with or without a handler, leaves the slot,
\* the State blocks, the liveliness cells with their strong counts, the linked
\* records and the Shell as they were; the Handle handed over is no strong holder.
C28_DispatchLeavesStateAlone ==
  [][(NonDestroyFire \/ NonDestroyReturn)
       => /\ data' = data
          /\ state' = state
          /\ rc' = rc
          /\ listeners' = listeners
          /\ shell' = shell]_vars

\* A handler method other than destroyed has just been called with a Handle of the
\* Shell's wrapper, after an earlier notification that was dropped for lack of the
\* compositor: the Shell's wrapper is the only strong holder and every record is
\* still linked.
C28_Witness ==
  \E p \in Ptrs :
    /\ Len(trace) = 3
    /\ trace[1].k = "fire" /\ trace[1].ev # "destroy" /\ trace[1].res = "unavailable"
    /\ trace[2].k = "fire" /\ trace[2].ev # "destroy"
    /\ trace[3].k = "call" /\ trace[3].p = p
    /\ stack # <<>> /\ Top.k = "handler" /\ Top.ev # "destroy"
    /\ Surface_weak_reference(p, shell[p].tok) \in handles
    /\ rc[shell[p].tok].strong = 1
    /\ state[shell[p].tok].st = "live"
    /\ data[p] = shell[p].tok
    /\ listeners[p] = Kinds

\* ---- C29
\* C29: a destroy notification dispatched to a Shell with a handler while
\* compositor::handle() gives none still unlinks the fourteen records, frees the
\* Shell and releases the State block; only the call of destroyed is skipped.
C29_DestroyWithoutCompositorTearsDown ==
  \A i \in DOMAIN trace :
    (trace[i].k = "fire" /\ trace[i].ev = "destroy" /\ trace[i].res = "unavailable")
      => /\ listeners[trace[i].p] = {}
         /\ shell[trace[i].p].st = "freed"
         /\ state[shell[trace[i].p].tok].st = "freed"
         /\ \A j \in DOMAIN trace : ~(trace[j].k = "call" /\ trace[j].ev = "destroyed")

\* ---- C30
\* C30: the records of a Shell change only when the Shell is built (all fourteen
\* are linked) and when it is dropped (all fourteen are unlinked, once, in the
\* step that frees it), so a freed Shell has no record that a notification of
\* any kind could reach.
C30_RecordsUnlinkedAtTeardown ==
  [][\A p \in Ptrs :
       /\ listeners'[p] # listeners[p]
            => \/ shell[p].st = "none" /\ shell'[p].st = "live" /\ listeners'[p] = Kinds
               \/ /\ shell[p].st = "live" /\ shell'[p].st = "freed"
                  /\ listeners[p] = Kinds /\ listeners'[p] = {}
       /\ shell'[p].st = "freed" => listeners'[p] = {}]_vars

\* The Shell of a destroyed object has been dropped: no record is linked, and
\* nothing was read or released out of turn.
C30_Witness ==
  \E p \in Ptrs :
    /\ native[p] = "freed"
    /\ shell[p].st = "freed"
    /\ shell[p].handler
    /\ listeners[p] = {}
    /\ state[shell[p].tok].st = "freed"
    /\ fault = "none"

\* ---- C31
\* The native library sets or clears the wl_surface pointer of an object (it sets
\* it when the window gets a surface and clears it when the surface goes away).
SetSurface(p, s) ==
  /\ Running
  /\ native[p] = "alive"
  /\ s # wl_surface[p]
  /\ wl_surface' = [wl_surface EXCEPT ![p] = s]
  /\ last' = NoOp
  /\ UNCHANGED <<native, mapped, data, listeners, state, rc, shell, held, handles,
                 stack, fault, trace, logOn, surface_handler, renderVars, macroVars>>

NextSurface ==
  \/ \E p \in Ptrs : NativeCreate(p)
  \/ \E p \in Ptrs, hnd \in BOOLEAN : NewSurface(p, hnd)
  \/ \E p \in Ptrs, s \in WlSurfaces \cup {NULL} : SetSurface(p, s)
  \/ \E p \in Ptrs : Notify(p)
  \/ HandlerReturn

\* The listeners on objects whose wl_surface pointer comes and goes.
SpecSurface == Init /\ [][NextSurface]_vars

\* C31: at every call of a handler method the related-surface argument is Some
\* exactly when the wl_surface pointer of the native object is not null at that
\* moment, and the Handle it carries is the one of that pointer.
C31_SurfaceArgumentFollowsPointer ==
  [][(Len(stack') = Len(stack) + 1 /\ stack'[Len(stack')].k = "handler")
       => LET f == stack'[Len(stack')]
          IN  /\ f.surface.some <=> wl_surface[f.p] # NULL
              /\ f.surface.some => f.surface.handle.ptr = wl_surface[f.p]]_vars

\* A handler method called without a related surface has, in its body, had the
\* object given a wl_surface and another notification dispatched: the nested
\* call got the Handle of that wl_surface.
C31_Witness ==
  /\ Len(stack) = 2
  /\ stack[1].k = "handler" /\ ~stack[1].surface.some
  /\ stack[2].k = "handler" /\ stack[2].surface.some
  /\ stack[2].p = stack[1].p
  /\ stack[2].surface.handle.ptr = wl_surface[stack[2].p]
  /\ wl_surface[stack[2].p] = "ws2"

\* ---- C32
\* The names that `use ... as name` statements of block b rename to, anywhere
\* in b.
RECURSIVE Appearing(_)
Appearing(b) ==
  IF Len(b) = 0 THEN {}
  ELSE (IF Head(b).kind = "use" THEN {Head(b).name} ELSE {})
         \cup Appearing(Head(b).body) \cup Appearing(Tail(b))

\* C32: the attribute panics at expansion exactly when it is given no name or
\* when one of its names is the right-hand name of no `use h as name` statement
\* anywhere in the function body.
C32_RejectsExactlyUnusedNames ==
  expansion.phase # "source"
    => (expansion.phase = "rejected"
          <=> \/ expansion.args = {}
              \/ \E x \in expansion.args : x \notin Appearing(expansion.input))

\* ---- C33
\* C33: when destroy_notify, after destroyed has returned, recovers the State
\* block from the slot of the native object whose destroy record fired, the
\* block is live and the Shell pointer stored in it is not null and is the
\* Shell that record belongs to.
C33_StateBlockNamesFiringShell ==
  [][(/\ stack # <<>>
      /\ Top.k = "handler"
      /\ Top.ev = "destroy"
      /\ stack' = Pop)
        => /\ data[Top.p] # NoTok
           /\ state[data[Top.p]].st = "live"
           /\ state[data[Top.p]].shell = Top.p
           /\ shell[Top.p].st = "live"]_vars

====
